---- MODULE Spec2Model ----
(***************************************************************************)
(* Temporal downscaling of biogenic carbon fluxes: the fixed-window        *)
(* engine of Olsen and Randerson (olsen_randerson/__init__.py) and the     *)
(* rolling-window engine of Fisher et al. (olsen_randerson/fisher.py).     *)
(*                                                                         *)
(* Every function of the package is pure, so a behaviour is one call: the  *)
(* initial state holds the arguments of a call, the call's action stores   *)
(* what the call returns or raises.                                        *)
(*                                                                         *)
(* Numbers are exact rationals <<n, d>> in lowest terms with d > 0,        *)
(* extended by the IEEE-754 special values a float division produces:      *)
(* <<1, 0>> is +inf, <<-1, 0>> is -inf and <<0, 0>> is NaN.  Rounding and  *)
(* overflow of float64 are not modelled.                                   *)
(***************************************************************************)
EXTENDS Integers, Sequences, FiniteSets, TLC

VARIABLES
    call,   \* the function invoked and its arguments
    ret     \* what the call produced: pending, a value, or a raised error

vars == <<call, ret>>

----------------------------------------------------------------------------
(* Bounds of the model.                                                    *)

\* Largest number of fine steps N of a fixed-window call.
MaxN == 2
\* Largest number of columns (trailing axis) of a fixed-window call.
MaxCols == 1

\* Values drawn for the inputs of the fixed-window scalers.
ParValues == {0, 1, 2}
FluxValues == {0, 1, 2}
\* Celsius; multiples of ten keep Q10 ** ((t - T0) / 10) rational.
TemperatureValues == {-10, 20, 40}
\* Values drawn for the inputs of the fixed-window combiner.
OnceParValues == {0, 1}
OnceTemperatureValues == {20, 40}
NppValues == {-1, 0, 2}
RhValues == {0, 1}

----------------------------------------------------------------------------
(* float arithmetic                                                        *)

Abs(x) == IF x < 0 THEN -x ELSE x

Sign(x) == IF x > 0 THEN 1 ELSE IF x < 0 THEN -1 ELSE 0

RECURSIVE GCD(_, _)
GCD(a, b) == IF b = 0 THEN a ELSE GCD(b, a % b)

Norm(n, d) ==
    IF d = 0 THEN <<Sign(n), 0>>
    ELSE LET g == GCD(Abs(n), Abs(d))
             s == Sign(d)
         IN  <<(s * n) \div g, (s * d) \div g>>

NaN == <<0, 0>>

R(i) == <<i, 1>>

IsNaN(a) == a = NaN

IsFinite(a) == a[2] # 0

\* a >= 0 as numpy evaluates it: False for NaN.
Geq0(a) == ~IsNaN(a) /\ a[1] >= 0

Neg(a) == <<-a[1], a[2]>>

Add(a, b) ==
    IF a[2] = 0 /\ b[2] = 0 THEN (IF a = b THEN a ELSE NaN)
    ELSE IF a[2] = 0 THEN a
    ELSE IF b[2] = 0 THEN b
    ELSE Norm(a[1] * b[2] + b[1] * a[2], a[2] * b[2])

Sub(a, b) == Add(a, Neg(b))

Mul(a, b) == Norm(a[1] * b[1], a[2] * b[2])

\* 1 / a; 1 / 0 is +inf (numpy warns and goes on).
Inv(a) == Norm(a[2], a[1])

Div(a, b) == Mul(a, Inv(b))

RECURSIVE IntPow(_, _)
IntPow(q, k) ==
    IF k = 0 THEN R(1)
    ELSE IF k < 0 THEN IntPow(Inv(q), -k)
    ELSE Mul(q, IntPow(q, k - 1))

\* q ** e.  Only whole exponents have a rational power, so the model draws
\* temperatures that differ from T0 by multiples of ten degrees.
Pow(q, e) == CASE e[2] = 1 -> IntPow(q, e[1])

----------------------------------------------------------------------------
(* Module constants of olsen_randerson/__init__.py                         *)

NPP_TO_GPP_FACTOR == 2

Q10 == <<3, 2>>

T0 == 30

----------------------------------------------------------------------------
(* numpy arrays: a coarse array of shape (M,) is a sequence of M numbers,  *)
(* a fine array of shape (N, M) a sequence of N rows of M numbers.         *)

Shape1(v) == <<Len(v)>>

Shape2(a) == <<Len(a), Len(a[1])>>

Value(v) == [kind |-> "value", value |-> v]

Raise(e) == [kind |-> "raise", value |-> e]

Pending == [kind |-> "pending", value |-> <<>>]

RECURSIVE SumTo(_, _, _)
\* a[1][j] + ... + a[n][j], added in index order.
SumTo(a, j, n) == IF n = 0 THEN R(0) ELSE Add(SumTo(a, j, n - 1), a[n][j])

\* a.mean(axis=0)
MeanAxis0(a) == [j \in 1..Len(a[1]) |-> Div(SumTo(a, j, Len(a)), R(Len(a)))]

\* a.sum(axis=0)
SumAxis0(a) == [j \in 1..Len(a[1]) |-> SumTo(a, j, Len(a))]

\* numpy broadcasting of two trailing axes of lengths m1 and m2.
CanBroadcast(m1, m2) == m1 = m2 \/ m1 = 1 \/ m2 = 1

BroadcastLen(m1, m2) == IF m1 = 1 THEN m2 ELSE m1

At(v, j) == IF Len(v) = 1 THEN v[1] ELSE v[j]

\* ScaleBy scaling by the anomaly (scaling - total) instead of scaling.
ScaleByAnomaly(flux, total, scaling) ==
    IF ~CanBroadcast(Len(flux), Len(total)) THEN Raise("ValueError")
    ELSE LET m == BroadcastLen(Len(flux), Len(total))
             factor == [j \in 1..m |-> Div(At(flux, j), At(total, j))]
         IN  IF ~CanBroadcast(m, Len(scaling[1])) THEN Raise("ValueError")
             ELSE Value([i \in 1..Len(scaling) |->
                          [j \in 1..BroadcastLen(m, Len(scaling[1])) |->
                              Mul(At(factor, j),
                                  Sub(At(scaling[i], j), At(total, j)))]])

\* (flux / total)[np.newaxis, ...] * scaling
ScaleBy(flux, total, scaling) ==
    IF ~CanBroadcast(Len(flux), Len(total)) THEN Raise("ValueError")
    ELSE LET m == BroadcastLen(Len(flux), Len(total))
             factor == [j \in 1..m |-> Div(At(flux, j), At(total, j))]
         IN  IF ~CanBroadcast(m, Len(scaling[1])) THEN Raise("ValueError")
             ELSE Value([i \in 1..Len(scaling) |->
                          [j \in 1..BroadcastLen(m, Len(scaling[1])) |->
                              Mul(At(factor, j), At(scaling[i], j))]])

----------------------------------------------------------------------------
(* The fixed-window engine                                                 *)

\* olsen_randerson_gpp_once normalising by par.sum(axis=0).
olsen_randerson_gpp_once_sum(flux_gpp, par) ==
    LET par_total == SumAxis0(par)
    IN  ScaleBy(flux_gpp, par_total, par)

\* olsen_randerson_gpp_once multiplying by PAR without dividing by its mean.
olsen_randerson_gpp_once_unnormalised(flux_gpp, par) ==
    LET par_total == [j \in 1..Len(par[1]) |-> R(1)]
    IN  ScaleBy(flux_gpp, par_total, par)

olsen_randerson_gpp_once(flux_gpp, par) ==
    LET par_total == MeanAxis0(par)
    IN  ScaleBy(flux_gpp, par_total, par)

\* olsen_randerson_resp_once normalising by the first fine step's response
\* instead of the mean response.
olsen_randerson_resp_once_first(flux_resp, temperature) ==
    LET resp_scaling == [i \in 1..Len(temperature) |->
                            [j \in 1..Len(temperature[i]) |->
                                Pow(Q10, Div(Sub(temperature[i][j], R(T0)),
                                             R(10)))]]
        resp_total == resp_scaling[1]
    IN  ScaleBy(flux_resp, resp_total, resp_scaling)

\* olsen_randerson_resp_once_at normalising by the mean of the response
\* relative to zero degrees instead of relative to the baseline.
olsen_randerson_resp_once_at_fixed_total(flux_resp, temperature, baseline) ==
    LET resp_scaling == [i \in 1..Len(temperature) |->
                            [j \in 1..Len(temperature[i]) |->
                                Pow(Q10, Div(Sub(temperature[i][j],
                                                 R(baseline)), R(10)))]]
        resp_total == MeanAxis0(
            [i \in 1..Len(temperature) |->
                [j \in 1..Len(temperature[i]) |->
                    Pow(Q10, Div(temperature[i][j], R(10)))]])
    IN  ScaleBy(flux_resp, resp_total, resp_scaling)

\* The body of olsen_randerson_resp_once, with the module constant T0 it
\* reads as the parameter baseline.
olsen_randerson_resp_once_at(flux_resp, temperature, baseline) ==
    LET resp_scaling == [i \in 1..Len(temperature) |->
                            [j \in 1..Len(temperature[i]) |->
                                Pow(Q10, Div(Sub(temperature[i][j],
                                                 R(baseline)), R(10)))]]
        resp_total == MeanAxis0(resp_scaling)
    IN  ScaleBy(flux_resp, resp_total, resp_scaling)

olsen_randerson_resp_once(flux_resp, temperature) ==
    olsen_randerson_resp_once_at(flux_resp, temperature, T0)

\* olsen_randerson_once taking estimated_gpp + flux_rh as the respiration.
olsen_randerson_once_no_rauto(flux_npp, flux_rh, temperature, par) ==
    IF Shape2(par) # Shape2(temperature) THEN Raise("AssertionError")
    ELSE IF Shape1(flux_npp) # Shape1(flux_rh) THEN Raise("AssertionError")
    ELSE LET estimated_gpp == [j \in 1..Len(flux_npp) |->
                                  Mul(R(NPP_TO_GPP_FACTOR), flux_npp[j])]
             flux_gpp == olsen_randerson_gpp_once(estimated_gpp, par)
             flux_resp == olsen_randerson_resp_once(
                 [j \in 1..Len(flux_npp) |->
                     Add(estimated_gpp[j], flux_rh[j])],
                 temperature)
         IN  IF flux_gpp.kind = "raise" THEN flux_gpp
             ELSE IF flux_resp.kind = "raise" THEN flux_resp
             ELSE Value([i \in 1..Len(par) |->
                          [j \in 1..Len(flux_gpp.value[i]) |->
                              Sub(flux_gpp.value[i][j], flux_resp.value[i][j])]])

olsen_randerson_once(flux_npp, flux_rh, temperature, par) ==
    IF Shape2(par) # Shape2(temperature) THEN Raise("AssertionError")
    ELSE IF Shape1(flux_npp) # Shape1(flux_rh) THEN Raise("AssertionError")
    ELSE LET estimated_gpp == [j \in 1..Len(flux_npp) |->
                                  Mul(R(NPP_TO_GPP_FACTOR), flux_npp[j])]
             flux_gpp == olsen_randerson_gpp_once(estimated_gpp, par)
             flux_resp == olsen_randerson_resp_once(
                 [j \in 1..Len(flux_npp) |->
                     Add(Sub(estimated_gpp[j], flux_npp[j]), flux_rh[j])],
                 temperature)
         IN  IF flux_gpp.kind = "raise" THEN flux_gpp
             ELSE IF flux_resp.kind = "raise" THEN flux_resp
             ELSE Value([i \in 1..Len(par) |->
                          [j \in 1..Len(flux_gpp.value[i]) |->
                              Sub(flux_gpp.value[i][j], flux_resp.value[i][j])]])

----------------------------------------------------------------------------
(* Arguments of the fixed-window calls                                     *)

Coarse(values, m) == [1..m -> {R(x) : x \in values}]

Fine(values, n, m) == [1..n -> [1..m -> {R(x) : x \in values}]]

IsGppOnceCall ==
    \E n \in 1..MaxN, m \in 1..MaxCols :
        \E g \in Coarse(FluxValues, m), p \in Fine(ParValues, n, m) :
            call = [fn |-> "olsen_randerson_gpp_once", flux_gpp |-> g,
                    par |-> p]

IsRespOnceCall ==
    \E n \in 1..MaxN, m \in 1..MaxCols :
        \E r \in Coarse(FluxValues, m), t \in Fine(TemperatureValues, n, m) :
            call = [fn |-> "olsen_randerson_resp_once", flux_resp |-> r,
                    temperature |-> t]

\* The combiner is also called with a temperature of another length than
\* PAR and with an Rh of another shape than NPP.
IsOnceCall ==
    \E n \in 1..MaxN, nt \in 1..MaxN, m \in 1..MaxCols, mh \in 1..MaxCols :
        \E f \in Coarse(NppValues, m), h \in Coarse(RhValues, mh),
           t \in Fine(OnceTemperatureValues, nt, m),
           p \in Fine(OnceParValues, n, m) :
            call = [fn |-> "olsen_randerson_once", flux_npp |-> f,
                    flux_rh |-> h, temperature |-> t, par |-> p]

----------------------------------------------------------------------------
(* Actions: one per function of the package                                *)

Call_olsen_randerson_gpp_once ==
    /\ call.fn = "olsen_randerson_gpp_once"
    /\ ret.kind = "pending"
    /\ ret' = olsen_randerson_gpp_once(call.flux_gpp, call.par)
    /\ UNCHANGED call

Call_olsen_randerson_resp_once ==
    /\ call.fn = "olsen_randerson_resp_once"
    /\ ret.kind = "pending"
    /\ ret' = olsen_randerson_resp_once(call.flux_resp, call.temperature)
    /\ UNCHANGED call

Call_olsen_randerson_once ==
    /\ call.fn = "olsen_randerson_once"
    /\ ret.kind = "pending"
    /\ ret' = olsen_randerson_once(call.flux_npp, call.flux_rh,
                                   call.temperature, call.par)
    /\ UNCHANGED call

InitFixed ==
    /\ IsGppOnceCall \/ IsRespOnceCall \/ IsOnceCall
    /\ ret = Pending

NextFixed ==
    \/ Call_olsen_randerson_gpp_once
    \/ Call_olsen_randerson_resp_once
    \/ Call_olsen_randerson_once

SpecFixed == InitFixed /\ [][NextFixed]_vars

----------------------------------------------------------------------------
(* pandas frames of the rolling-window engine.  A timestamp is a whole    *)
(* number of days since 2015-01-01; a frame (of one column) is a function *)
(* from its index, a set of timestamps, to numbers.                       *)

\* Fine frequencies, first and last fine timestamps, and coarse indexes
\* (one timestamp per calendar month) drawn for the rolling-window calls.
FreqValues == {15}
FineFirsts == {0, 15}
FineLasts == {60, 75}
CoarseIndexes == {{0, 45, 60}, {0, 45, 60, 90}, {15, 45, 75}}
TsParValues == {0, 1}
TsTemperatureValues == {20, 30}
TsFluxValues == {0, 2}
TsNppValues == {-1, 2}
TsRhValues == {0, 1}

\* The window "30D" of every rolling mean.
WindowDays == 30

\* The first days of the months of 2015, the bin edges of resample("1MS").
MonthStarts == {0, 31, 59, 90, 120, 151, 181, 212, 243, 273, 304, 334}

Min(S) == CHOOSE x \in S : \A y \in S : x <= y

Max(S) == CHOOSE x \in S : \A y \in S : x >= y

MonthStartOf(d) == Max({s \in MonthStarts : s <= d})

\* pd.date_range(first, last, freq)
DateRange(first, last, freq) ==
    {first + k * freq : k \in 0..((last - first) \div freq)}

\* frame.index.freq of a fixed-frequency index of two or more timestamps.
IndexFreq(frame) ==
    LET idx == DOMAIN frame
    IN  CHOOSE d \in 1..(Max(idx) - Min(idx)) :
            idx = DateRange(Min(idx), Max(idx), d)

RECURSIVE SumOver(_, _)
\* The sum of frame over the timestamps S, added in time order.
SumOver(frame, S) ==
    IF S = {} THEN R(0)
    ELSE LET t == Max(S) IN Add(SumOver(frame, S \ {t}), frame[t])

\* frame.rolling("30D").mean(): the mean over the window (t - 30D, t] of the
\* values that are not NaN; min_periods is 1 for a window given as an
\* offset, which is also what fisher.py:78 and :81 pass.
RollingMean(frame) ==
    [t \in DOMAIN frame |->
        LET window == {s \in DOMAIN frame :
                          /\ t - WindowDays < s
                          /\ s <= t
                          /\ ~IsNaN(frame[s])}
        IN  IF Cardinality(window) < 1 THEN NaN
            ELSE Div(SumOver(frame, window), R(Cardinality(window)))]

\* Frame arithmetic: pandas aligns the two frames on the union of their
\* indexes and fills what either lacks with NaN.
FrameAdd(left, right) ==
    [t \in DOMAIN left \cup DOMAIN right |->
        IF t \in DOMAIN left /\ t \in DOMAIN right
        THEN Add(left[t], right[t]) ELSE NaN]

FrameSub(left, right) ==
    [t \in DOMAIN left \cup DOMAIN right |->
        IF t \in DOMAIN left /\ t \in DOMAIN right
        THEN Sub(left[t], right[t]) ELSE NaN]

FrameMul(left, right) ==
    [t \in DOMAIN left \cup DOMAIN right |->
        IF t \in DOMAIN left /\ t \in DOMAIN right
        THEN Mul(left[t], right[t]) ELSE NaN]

FrameDiv(left, right) ==
    [t \in DOMAIN left \cup DOMAIN right |->
        IF t \in DOMAIN left /\ t \in DOMAIN right
        THEN Div(left[t], right[t]) ELSE NaN]

\* The index an upsampling resample(freq) produces: from the first
\* timestamp in steps of freq up to the last timestamp.
UpsampledIndex(frame, freq) ==
    DateRange(Min(DOMAIN frame), Max(DOMAIN frame), freq)

\* frame.resample(freq).interpolate(method="time"): asfreq keeps the values
\* whose timestamps are on the new index, then the gaps are filled linearly
\* in time; a gap after the last value repeats it, a gap before the first
\* stays NaN.
ResampleInterpolate(frame, freq) ==
    LET grid == UpsampledIndex(frame, freq)
        known == {t \in grid \cap DOMAIN frame : ~IsNaN(frame[t])}
    IN  [t \in grid |->
            IF t \in known THEN frame[t]
            ELSE LET before == {s \in known : s < t}
                     after == {s \in known : s > t}
                 IN  IF before = {} THEN NaN
                     ELSE IF after = {} THEN frame[Max(before)]
                     ELSE LET a == Max(before)
                              b == Min(after)
                          IN  Add(frame[a],
                                  Mul(Sub(frame[b], frame[a]),
                                      Div(R(t - a), R(b - a))))]

\* frame.resample("1MS").first(): one row per calendar month from the month
\* of the first timestamp to the month of the last, labelled by the month's
\* first day, holding the month's first value that is not NaN.
ResampleMonthStartFirst(frame) ==
    LET idx == DOMAIN frame
        labels == {s \in MonthStarts :
                      MonthStartOf(Min(idx)) <= s /\ s <= MonthStartOf(Max(idx))}
    IN  [s \in labels |->
            LET in_month == {t \in idx :
                                MonthStartOf(t) = s /\ ~IsNaN(frame[t])}
            IN  IF in_month = {} THEN NaN ELSE frame[Min(in_month)]]

\* frame.resample(freq).ffill(): each new timestamp takes the row at or
\* before it.
ResampleFfill(frame, freq) ==
    [t \in UpsampledIndex(frame, freq) |->
        frame[Max({s \in DOMAIN frame : s <= t})]]

\* frame.loc[first:last, :]
Loc(frame, first, last) ==
    [t \in {s \in DOMAIN frame : first <= s /\ s <= last} |-> frame[t]]

----------------------------------------------------------------------------
(* The rolling-window engine                                               *)

downscale_gpp_timeseries(flux_gpp, par) ==
    LET par_mean == RollingMean(par)
        flux_gpp_baseline == ResampleInterpolate(flux_gpp, IndexFreq(par))
    IN  FrameMul(FrameDiv(flux_gpp_baseline, par_mean), par)

downscale_resp_timeseries(flux_resp, temperature) ==
    LET resp_scaling == [t \in DOMAIN temperature |->
                            Pow(Q10, Div(Sub(temperature[t], R(T0)), R(10)))]
        resp_mean == RollingMean(resp_scaling)
        flux_resp_baseline ==
            ResampleInterpolate(flux_resp, IndexFreq(temperature))
    IN  FrameMul(FrameDiv(flux_resp_baseline, resp_mean),
                resp_scaling)

\* The raw combined output of downscale_timeseries (fisher.py:67-74).
downscaled_nee(flux_npp, flux_rh, temperature, par) ==
    LET estimated_gpp == [t \in DOMAIN flux_npp |->
                             Mul(R(NPP_TO_GPP_FACTOR), flux_npp[t])]
        flux_gpp == downscale_gpp_timeseries(estimated_gpp, par)
        flux_resp == downscale_resp_timeseries(
            FrameAdd(FrameSub(estimated_gpp, flux_npp), flux_rh),
            temperature)
    IN  FrameSub(flux_resp, flux_gpp)

\* The coarse reference series of the bias correction (fisher.py:75).
original_nee(flux_npp, flux_rh) ==
    ResampleMonthStartFirst(FrameSub(flux_npp, flux_rh))

downscale_timeseries(flux_npp, flux_rh, temperature, par) ==
    LET raw == downscaled_nee(flux_npp, flux_rh, temperature, par)
        difference ==
            FrameSub(RollingMean(raw),
                    Loc(RollingMean(ResampleFfill(
                            original_nee(flux_npp, flux_rh), IndexFreq(par))),
                        Min(DOMAIN par), Max(DOMAIN par)))
    IN  FrameAdd(raw, difference)

----------------------------------------------------------------------------
(* Arguments of the rolling-window calls                                   *)

Frame(index, values) == [index -> {R(x) : x \in values}]

\* A frame holding the same value at every timestamp of index.
ConstantFrames(index, values) == {[t \in index |-> R(x)] : x \in values}

FineIndexes ==
    {DateRange(first, last, freq) :
        first \in FineFirsts, last \in FineLasts, freq \in FreqValues}

IsGppTimeseriesCall ==
    \E fine \in FineIndexes, coarse \in CoarseIndexes :
        \E g \in Frame(coarse, TsFluxValues), p \in Frame(fine, TsParValues) :
            call = [fn |-> "downscale_gpp_timeseries", flux_gpp |-> g,
                    par |-> p]

IsRespTimeseriesCall ==
    \E fine \in FineIndexes, coarse \in CoarseIndexes :
        \E r \in Frame(coarse, TsFluxValues),
           t \in Frame(fine, TsTemperatureValues) :
            call = [fn |-> "downscale_resp_timeseries", flux_resp |-> r,
                    temperature |-> t]

\* The index of PAR in the calls of the combiner: the earliest and shortest
\* of the fine indexes.
CombinerParIndex ==
    DateRange(Min(FineFirsts), Min(FineLasts), Min(FreqValues))

\* The combiner is called with a temperature of PAR's shape, on PAR's index
\* or on another fine index of that length.
IsTimeseriesCall ==
    \E fine \in {i \in FineIndexes :
                    Cardinality(i) = Cardinality(CombinerParIndex)},
       coarse \in CoarseIndexes :
        \E f \in Frame(coarse, TsNppValues),
           h \in ConstantFrames(coarse, TsRhValues),
           t \in Frame(fine, TsTemperatureValues),
           p \in Frame(CombinerParIndex, TsParValues) :
            call = [fn |-> "downscale_timeseries", flux_npp |-> f,
                    flux_rh |-> h, temperature |-> t, par |-> p]

Call_downscale_gpp_timeseries ==
    /\ call.fn = "downscale_gpp_timeseries"
    /\ ret.kind = "pending"
    /\ ret' = Value(downscale_gpp_timeseries(call.flux_gpp, call.par))
    /\ UNCHANGED call

Call_downscale_resp_timeseries ==
    /\ call.fn = "downscale_resp_timeseries"
    /\ ret.kind = "pending"
    /\ ret' = Value(downscale_resp_timeseries(call.flux_resp,
                                              call.temperature))
    /\ UNCHANGED call

Call_downscale_timeseries ==
    /\ call.fn = "downscale_timeseries"
    /\ ret.kind = "pending"
    /\ ret' = Value(downscale_timeseries(call.flux_npp, call.flux_rh,
                                         call.temperature, call.par))
    /\ UNCHANGED call

Init ==
    /\ \/ IsGppOnceCall
       \/ IsRespOnceCall
       \/ IsOnceCall
       \/ IsGppTimeseriesCall
       \/ IsRespTimeseriesCall
       \/ IsTimeseriesCall
    /\ ret = Pending

Next ==
    \/ Call_olsen_randerson_gpp_once
    \/ Call_olsen_randerson_resp_once
    \/ Call_olsen_randerson_once
    \/ Call_downscale_gpp_timeseries
    \/ Call_downscale_resp_timeseries
    \/ Call_downscale_timeseries

Spec == Init /\ [][Next]_vars

----------------------------------------------------------------------------
(* Properties of the fixed-window engine                                   *)

Returned(f) == call.fn = f /\ ret.kind # "pending"

\* np.all(np.any(a != 0, axis=0)): every column has a nonzero entry.
AnyNonzeroPerColumn(a) ==
    \A j \in 1..Len(a[1]) : \E i \in 1..Len(a) : a[i][j] # R(0)

AllGeq0(a) == \A i \in 1..Len(a) : \A j \in 1..Len(a[i]) : Geq0(a[i][j])

HasNaNOrInf(a) ==
    \E i \in 1..Len(a) : \E j \in 1..Len(a[i]) : ~IsFinite(a[i][j])

\* C1: for a coarse GPP g >= 0 and a PAR array of N fine steps, all >= 0
\* and not all zero in any column, the downscaled GPP summed over the fine
\* axis is N * g.
C1_GppOnceConserves ==
    (Returned("olsen_randerson_gpp_once") /\ AnyNonzeroPerColumn(call.par))
        => /\ ret.kind = "value"
           /\ SumAxis0(ret.value) =
                  [j \in 1..Len(call.flux_gpp) |->
                      Mul(R(Len(call.par)), call.flux_gpp[j])]

\* GPP 2 over the PAR [0, 2] came back as [0, 4].
C1_Witness ==
    /\ Returned("olsen_randerson_gpp_once")
    /\ call.flux_gpp = <<R(2)>>
    /\ call.par = <<(<<R(0)>>), (<<R(2)>>)>>
    /\ ret = Value(<<(<<R(0)>>), (<<R(4)>>)>>)

\* C2: for any NPP (of either sign), any Rh, any temperature and a PAR of
\* N fine steps with nonzero mean, the downscaled net flux summed over the
\* fine axis is N * (flux_npp - flux_rh).
C2_OnceConserves ==
    (/\ Returned("olsen_randerson_once")
     /\ Shape2(call.par) = Shape2(call.temperature)
     /\ Shape1(call.flux_npp) = Shape1(call.flux_rh)
     /\ AnyNonzeroPerColumn(call.par))
        => /\ ret.kind = "value"
           /\ SumAxis0(ret.value) =
                  [j \in 1..Len(call.flux_npp) |->
                      Mul(R(Len(call.par)),
                          Sub(call.flux_npp[j], call.flux_rh[j]))]

\* A negative NPP with a positive Rh, an uneven PAR and an uneven
\* temperature gave a net flux that is not constant over the fine steps.
C2_Witness ==
    /\ Returned("olsen_randerson_once")
    /\ call.flux_npp = <<R(-1)>>
    /\ call.flux_rh = <<R(1)>>
    /\ call.par = <<(<<R(0)>>), (<<R(1)>>)>>
    /\ call.temperature = <<(<<R(20)>>), (<<R(40)>>)>>
    /\ ret.kind = "value"
    /\ ret.value[1] # ret.value[2]

\* C5 (as claimed): a PAR that is zero at every fine step makes
\* olsen_randerson_gpp_once raise; it never returns NaN or inf.
C5_ZeroParRaises ==
    (Returned("olsen_randerson_gpp_once") /\ ~AnyNonzeroPerColumn(call.par))
        => /\ ret.kind = "raise"
           /\ ~(ret.kind = "value" /\ HasNaNOrInf(ret.value))

\* C7: for a coarse respiration r >= 0 and any temperatures, the downscaled
\* respiration summed over the fine axis is N * r.
C7_RespOnceConserves ==
    Returned("olsen_randerson_resp_once")
        => /\ ret.kind = "value"
           /\ SumAxis0(ret.value) =
                  [j \in 1..Len(call.flux_resp) |->
                      Mul(R(Len(call.temperature)), call.flux_resp[j])]

\* Respiration 2 over the temperatures [-10, 40], below and above T0, came
\* back as two different positive values.
C7_Witness ==
    /\ Returned("olsen_randerson_resp_once")
    /\ call.flux_resp = <<R(2)>>
    /\ call.temperature = <<(<<R(-10)>>), (<<R(40)>>)>>
    /\ ret.kind = "value"
    /\ ret.value[1][1] # ret.value[2][1]
    /\ ret.value[1][1][1] > 0

\* C8: every element of the downscaled GPP is >= 0 when g >= 0 and PAR is
\* >= 0 with a nonzero entry per column, and every element of the
\* downscaled respiration is >= 0 when r >= 0.
C8_FixedWindowNonnegative ==
    /\ (Returned("olsen_randerson_gpp_once") /\ AnyNonzeroPerColumn(call.par))
           => (ret.kind = "value" /\ AllGeq0(ret.value))
    /\ Returned("olsen_randerson_resp_once")
           => (ret.kind = "value" /\ AllGeq0(ret.value))

\* A downscaled GPP with a zero and a positive element.
C8_Witness ==
    /\ Returned("olsen_randerson_gpp_once")
    /\ AnyNonzeroPerColumn(call.par)
    /\ ret.kind = "value"
    /\ \E i \in 1..Len(ret.value) : ret.value[i][1] = R(0)
    /\ \E i \in 1..Len(ret.value) : ret.value[i][1][1] > 0

----------------------------------------------------------------------------
(* Properties of the rolling-window engine                                 *)

NextMonthStart(s) == Min({m \in MonthStarts : m > s})

\* The timestamps of frame in the calendar month that starts on day s.
InMonth(frame, s) == {t \in DOMAIN frame : MonthStartOf(t) = s}

\* The month starting on day s lies within the fine index and has at least
\* 30 days of fine data before it.
MonthCovered(fine, s) ==
    /\ Min(DOMAIN fine) + WindowDays <= s
    /\ Max(DOMAIN fine) >= NextMonthStart(s) - 1
    /\ InMonth(fine, s) # {}

MonthMean(frame, s) ==
    Div(SumOver(frame, InMonth(frame, s)), R(Cardinality(InMonth(frame, s))))

\* No 30-day window of the fine index has PAR zero throughout.
ParMeanNonzero(par) == \A t \in DOMAIN par : RollingMean(par)[t] # R(0)

\* C3 (as claimed): for every month of the coarse input that the fine index
\* covers and precedes by 30 days, the mean of downscale_timeseries's output
\* over the month's fine timesteps is the month's coarse net flux
\* flux_npp - flux_rh, in one sign convention or the other (the drivers
\* sharing one index and PAR having a nonzero mean over every window).
C3_MonthlyAggregateConserved ==
    (/\ Returned("downscale_timeseries")
     /\ DOMAIN call.temperature = DOMAIN call.par
     /\ ParMeanNonzero(call.par))
        => \A c \in DOMAIN call.flux_npp :
              MonthCovered(call.par, MonthStartOf(c))
                  => LET net == Sub(call.flux_npp[c], call.flux_rh[c])
                         mean == MonthMean(ret.value, MonthStartOf(c))
                     IN  mean = net \/ mean = Neg(net)

\* Both drivers are constant over the fine index and the coarse fluxes are
\* constant over the months: every fine step then carries the coarse net
\* flux itself, so the sign of an output shows the sign convention alone.
UniformInputs ==
    /\ DOMAIN call.temperature = DOMAIN call.par
    /\ \E x \in TsParValues \ {0} : \A t \in DOMAIN call.par : call.par[t] = R(x)
    /\ \A t, u \in DOMAIN call.temperature :
          call.temperature[t] = call.temperature[u]
    /\ \A c, d \in DOMAIN call.flux_npp : call.flux_npp[c] = call.flux_npp[d]

OppositeSign(a, b) == IsFinite(a) /\ IsFinite(b) /\ a[1] * b[1] < 0

\* The rows of a fine frame in the month starting on day s, as the (N, 1)
\* array the fixed-window engine takes.
MonthRows(frame, s) ==
    [k \in 1..Cardinality(InMonth(frame, s)) |->
        <<frame[Min(InMonth(frame, s)) + (k - 1) * IndexFreq(frame)]>>]

\* C4 (as claimed): the two combiners use one sign convention.  On uniform
\* inputs (a) no fine step of downscale_timeseries's output has the sign
\* opposite to what olsen_randerson_once returns for that step's month, and
\* (b) inside downscale_timeseries the raw combined output never has the
\* sign opposite to the coarse reference series of the bias correction.
C4_OneSignConvention ==
    (Returned("downscale_timeseries") /\ UniformInputs)
        => /\ \A c \in DOMAIN call.flux_npp :
                 LET s == MonthStartOf(c)
                     once == olsen_randerson_once(
                                 <<call.flux_npp[c]>>, <<call.flux_rh[c]>>,
                                 MonthRows(call.temperature, s),
                                 MonthRows(call.par, s))
                 IN  InMonth(call.par, s) # {}
                        => /\ once.kind = "value"
                           /\ \A k \in 1..Len(once.value) :
                                 ~OppositeSign(
                                     once.value[k][1],
                                     ret.value[Min(InMonth(call.par, s))
                                         + (k - 1) * IndexFreq(call.par)])
           /\ LET raw == downscaled_nee(call.flux_npp, call.flux_rh,
                                        call.temperature, call.par)
                  reference == ResampleFfill(
                      original_nee(call.flux_npp, call.flux_rh),
                      IndexFreq(call.par))
              IN  \A t \in DOMAIN raw \cap DOMAIN reference :
                     ~OppositeSign(raw[t], reference[t])

\* C6 (as claimed): with a coarse GPP >= 0 and a PAR >= 0 that is not zero
\* throughout, downscale_gpp_timeseries gives a number >= 0, not NaN, at
\* every fine timestamp except the first and the last.
C6_GppTimeseriesNonnegative ==
    (/\ Returned("downscale_gpp_timeseries")
     /\ \E t \in DOMAIN call.par : call.par[t] # R(0))
        => \A t \in DOMAIN call.par \ {Min(DOMAIN call.par),
                                       Max(DOMAIN call.par)} :
              /\ t \in DOMAIN ret.value
              /\ Geq0(ret.value[t])

\* C9 (as claimed): the output of each rolling-window function has exactly
\* the timestamps of its fine driver, wherever the coarse index starts and
\* ends.
C9_ShapePreserved ==
    /\ Returned("downscale_gpp_timeseries")
          => DOMAIN ret.value = DOMAIN call.par
    /\ Returned("downscale_resp_timeseries")
          => DOMAIN ret.value = DOMAIN call.temperature
    /\ (/\ Returned("downscale_timeseries")
        /\ DOMAIN call.temperature = DOMAIN call.par)
          => DOMAIN ret.value = DOMAIN call.par

\* C10 (as claimed): a combiner called with a temperature and a PAR of
\* different shape (fixed-window) or index (rolling-window), or with an NPP
\* and an Rh of different shape, raises and returns nothing.
C10_MismatchRaises ==
    /\ (/\ Returned("olsen_randerson_once")
        /\ \/ Shape2(call.temperature) # Shape2(call.par)
           \/ Shape1(call.flux_npp) # Shape1(call.flux_rh))
          => ret.kind = "raise"
    /\ (/\ Returned("downscale_timeseries")
        /\ \/ DOMAIN call.temperature # DOMAIN call.par
           \/ DOMAIN call.flux_npp # DOMAIN call.flux_rh)
          => ret.kind = "raise"

----------------------------------------------------------------------------
(* Algebraic properties of the fixed-window scalers                        *)

\* The positive constants c by which PAR is rescaled.
ParScales == {<<2, 1>>, <<3, 1>>, <<1, 2>>}

\* c * a for a fine array a.
Scaled(c, a) == [i \in 1..Len(a) |-> [j \in 1..Len(a[i]) |-> Mul(c, a[i][j])]]

\* C11: for a PAR with nonzero mean and a constant c > 0,
\* olsen_randerson_gpp_once(g, c * par) is elementwise what
\* olsen_randerson_gpp_once(g, par) returned; GPP 2 gives [0, 3, 3] over the
\* PAR [0, 1, 1] and over the PAR [0, 2, 2].
C11_GppOnceParScaleInvariant ==
    (Returned("olsen_randerson_gpp_once") /\ AnyNonzeroPerColumn(call.par))
        => /\ \A c \in ParScales :
                 olsen_randerson_gpp_once(call.flux_gpp, Scaled(c, call.par))
                     = ret
           /\ olsen_randerson_gpp_once(
                  <<R(2)>>, <<(<<R(0)>>), (<<R(1)>>), (<<R(1)>>)>>)
                 = Value(<<(<<R(0)>>), (<<R(3)>>), (<<R(3)>>)>>)
           /\ olsen_randerson_gpp_once(
                  <<R(2)>>, <<(<<R(0)>>), (<<R(2)>>), (<<R(2)>>)>>)
                 = Value(<<(<<R(0)>>), (<<R(3)>>), (<<R(3)>>)>>)

\* GPP 2 over the PAR [0, 1] came back as [0, 4], which is also what the
\* doubled PAR [0, 2] gives.
C11_Witness ==
    /\ Returned("olsen_randerson_gpp_once")
    /\ call.flux_gpp = <<R(2)>>
    /\ call.par = <<(<<R(0)>>), (<<R(1)>>)>>
    /\ ret = Value(<<(<<R(0)>>), (<<R(4)>>)>>)
    /\ olsen_randerson_gpp_once(call.flux_gpp, Scaled(R(2), call.par)) = ret

\* The baseline temperatures compared: the spec's example value and the
\* module's T0, and two more.
BaselineValues == {0, 10, 20, T0}

\* C12: the downscaled respiration does not depend on the baseline
\* temperature: with any of the baselines the result is elementwise what
\* olsen_randerson_resp_once returned with the module's T0, and respiration
\* 19/12 over the temperatures [0, 10, 20] gives [1, 3/2, 9/4] with the
\* baseline 10 and with the baseline 30.
C12_RespOnceBaselineIndependent ==
    Returned("olsen_randerson_resp_once")
        => /\ \A b \in BaselineValues :
                 olsen_randerson_resp_once_at(call.flux_resp,
                                              call.temperature, b) = ret
           /\ \A b \in {10, 30} :
                 olsen_randerson_resp_once_at(
                     <<(<<19, 12>>)>>,
                     <<(<<R(0)>>), (<<R(10)>>), (<<R(20)>>)>>, b)
                    = Value(<<(<<R(1)>>), (<<(<<3, 2>>)>>), (<<(<<9, 4>>)>>)>>)

\* Respiration 1 over the temperatures [20, 40] came back as two different
\* values, the same ones the baseline 10 gives.
C12_Witness ==
    /\ Returned("olsen_randerson_resp_once")
    /\ call.flux_resp = <<R(1)>>
    /\ call.temperature = <<(<<R(20)>>), (<<R(40)>>)>>
    /\ ret.kind = "value"
    /\ ret.value[1][1] # ret.value[2][1]
    /\ olsen_randerson_resp_once_at(call.flux_resp, call.temperature, 10) = ret

====
